---- MODULE Spec2Model ----
(***************************************************************************)
(* A model of scriptpython.py: the CNPJ enrichment batch job.              *)
(*                                                                         *)
(*   normalize_cnpj, extract_fields   pure functions, as operators         *)
(*   fetch_cnpj_data                  the lookup client, one action per     *)
(*                                    HTTP attempt of its for-loop          *)
(*   main, reprocess_failed           the two entry points of the driver,   *)
(*                                    one action per step of the row loop   *)
(*                                                                         *)
(* Python values are tagged records, so that None, NaN, "" and a text keep  *)
(* the truthiness Python gives them.  A text is a sequence of pieces; the   *)
(* pieces of an identifier are its characters.  Durations are in            *)
(* milliseconds, because the driver pauses for half a second.               *)
(***************************************************************************)
EXTENDS Integers, Sequences, FiniteSets, TLC

VARIABLES
    runs,           \* how many times an entry point has been started
    entry,          \* the entry point running: "none", "main" or "reprocess_failed"
    pc,             \* the position of the driver in it
    raised,         \* the exception that ended the run, "" if none
    START_INDEX,    \* the configured first row of a full run
    input_csv,      \* INPUT_CSV on disk
    output_csv,     \* OUTPUT_CSV on disk
    writes,         \* how many times this run has written OUTPUT_CSV
    df,             \* the table in memory (df in main, df_final in reprocess_failed)
    todo,           \* the row indexes the loop has still to visit
    idx,            \* the row index of the current iteration
    cnpj_raw,       \* the current row's raw identifier
    cnpj,           \* the current row's normalized identifier
    resultados,     \* main: the records accumulated so far
    request_count,  \* the rate limiter's counter
    attempts_429,   \* the 429 retries of the current row
    calls,          \* the calls of fetch_cnpj_data for the current row, in order
    waits,          \* the driver's own sleeps for the current row, in order
    queried,        \* the row indexes for which fetch_cnpj_data has been called this run
    fpc,            \* the position of fetch_cnpj_data: "idle", "try", "returned"
    attempt,        \* the index of its for-loop
    last_exception_str,
    http_log,       \* what each HTTP attempt of the current call met, in order
    last_raised,    \* the text of the exception the latest failed attempt raised
    sleeps,         \* the backoff sleeps of the current call, in order
    api_result,     \* what the last call returned
    requests,       \* how many HTTP requests have been sent for the current row
    arg,            \* the argument a pure function is applied to
    ret,            \* its result
    ret2,           \* the result of applying normalize_cnpj to ret
    now,            \* the clock, in milliseconds since the loop began
    window_start,   \* the rate limiter's window start
    stamps,         \* the times of the HTTP requests of the last 60 seconds
    rpc,            \* the position in the timed row loop: "off", "limit", "request", "count"
    plan            \* how the remote service behaves in a timed run

drv_vars == <<runs, entry, pc, raised, START_INDEX, input_csv, output_csv, writes, df, todo, idx,
              cnpj_raw, cnpj, resultados, request_count, attempts_429, calls,
              waits, queried>>
call_vars == <<fpc, attempt, last_exception_str, http_log, last_raised, sleeps, api_result>>
fetch_vars == <<call_vars, requests>>
time_vars == <<now, window_start, stamps, rpc, plan>>
pure_vars == <<arg, ret, ret2, time_vars>>
vars == <<drv_vars, fetch_vars, pure_vars>>

----------------------------------------------------------------------------
(* Python values *)

None == [t |-> "None"]
NaN == [t |-> "NaN"]
Str(s) == [t |-> "str", s |-> s]
Bool(b) == [t |-> "bool", b |-> b]
PyInt(n) == [t |-> "int", n |-> n]
PyFloat(n) == [t |-> "float", n |-> n]
List(n) == [t |-> "list", len |-> n]
Dict(m) == [t |-> "dict", m |-> m]
EmptyMap == [k \in {} |-> None]

\* bool(v), as `not v` and `v or {}` use it; NaN is a non-zero float, hence true
Truthy(v) ==
    CASE v.t = "None" -> FALSE
      [] v.t = "NaN" -> TRUE
      [] v.t = "str" -> Len(v.s) > 0
      [] v.t = "bool" -> v.b
      [] v.t = "int" -> v.n # 0
      [] v.t = "float" -> v.n # 0
      [] v.t = "list" -> v.len > 0
      [] v.t = "dict" -> DOMAIN v.m # {}
      [] OTHER -> TRUE

\* pd.isna of a scalar
isna(v) == v.t \in {"None", "NaN"}

----------------------------------------------------------------------------
(* normalize_cnpj *)

CnpjLen == 14

DigitChars == {"0", "1", "2", "3", "4", "5", "6", "7", "8", "9"}

isdigit(ch) == ch \in DigitChars

\* a faulty variant: 14 digits or more are accepted
normalize_cnpj_atleast(raw) ==
    IF isna(raw) THEN None
    ELSE LET digits == SelectSeq(raw.s, isdigit)
         IN  IF Len(digits) >= CnpjLen THEN Str(digits) ELSE None

\* lines 48-59
normalize_cnpj(raw) ==
    IF isna(raw) THEN None
    ELSE LET digits == SelectSeq(raw.s, isdigit)
         IN  IF Len(digits) = CnpjLen THEN Str(digits) ELSE None

----------------------------------------------------------------------------
(* extract_fields *)

Raised(e) == [t |-> "raise", exc |-> e]
is_raise(x) == "exc" \in DOMAIN x

\* d.get(k) of a dict
get(d, k) == IF k \in DOMAIN d.m THEN d.m[k] ELSE None

\* v or {}
or_empty(v) == IF Truthy(v) THEN v ELSE Dict(EmptyMap)

\* only a dict has .get; on anything else the call raises AttributeError
has_get(v) == v.t = "dict"

EnvelopeCols == {"api_success", "api_http_status", "api_error"}
CompanyCols == {"razao_social", "nome_fantasia", "data_abertura", "natureza_juridica"}
SizeCols == {"porte_id", "porte_sigla", "porte_descricao"}
ActivityCols == {"cnae_principal_codigo", "cnae_principal_descricao"}
AddressCols == {"endereco_logradouro", "endereco_numero", "endereco_complemento",
                "endereco_bairro", "endereco_cidade", "endereco_uf", "endereco_cep"}
StatusCols == {"situacao_cadastral", "data_situacao_cadastral", "matriz_ou_filial"}
PayloadCols == CompanyCols \cup SizeCols \cup ActivityCols \cup AddressCols \cup StatusCols
FieldCols == EnvelopeCols \cup PayloadCols

\* the returned dict, once data, company, address, main_activity and size are dicts
flat_fields(r, data, company, address, main_activity, size) ==
    [api_success |-> r.success,
     api_http_status |-> r.http_status,
     api_error |-> r.error,
     razao_social |-> get(company, "name"),
     nome_fantasia |-> get(company, "alias"),
     data_abertura |-> get(company, "openingDate"),
     natureza_juridica |-> get(company, "legalNature"),
     porte_id |-> get(size, "id"),
     porte_sigla |-> get(size, "acronym"),
     porte_descricao |-> get(size, "text"),
     cnae_principal_codigo |-> get(main_activity, "id"),
     cnae_principal_descricao |-> get(main_activity, "text"),
     endereco_logradouro |-> get(address, "street"),
     endereco_numero |-> get(address, "number"),
     endereco_complemento |-> get(address, "complement"),
     endereco_bairro |-> get(address, "district"),
     endereco_cidade |-> get(address, "city"),
     endereco_uf |-> get(address, "state"),
     endereco_cep |-> get(address, "zip"),
     situacao_cadastral |-> get(data, "status"),
     data_situacao_cadastral |-> get(data, "statusDate"),
     matriz_ou_filial |-> get(data, "headquarterOrBranch")]

extract_fields(r) ==
    LET data == or_empty(r.data)
    IN  IF ~has_get(data) THEN Raised("AttributeError")
        ELSE LET company == or_empty(get(data, "company"))
                 address == or_empty(get(data, "address"))
                 main_activity == or_empty(get(data, "mainActivity"))
             IN  IF ~has_get(company) THEN Raised("AttributeError")
                 ELSE LET size == or_empty(get(company, "size"))
                      IN  IF ~has_get(size) \/ ~has_get(main_activity) \/ ~has_get(address)
                          THEN Raised("AttributeError")
                          ELSE flat_fields(r, data, company, address, main_activity, size)

----------------------------------------------------------------------------
(* helpers on sequences and texts *)

Range(q) == {q[i] : i \in DOMAIN q}

RECURSIVE Pow2(_)
Pow2(n) == IF n = 0 THEN 1 ELSE 2 * Pow2(n - 1)

\* str(v), as pieces of text
py_str(v) ==
    CASE v.t = "None" -> <<"None">>
      [] v.t = "NaN" -> <<"nan">>
      [] v.t = "str" -> v.s
      [] v.t = "bool" -> IF v.b THEN <<"True">> ELSE <<"False">>
      [] v.t = "int" -> <<ToString(v.n)>>
      [] v.t = "float" -> <<ToString(v.n) \o ".0">>

\* str.lower(), piece by piece
lower_piece(p) ==
    CASE p = "True" -> "true"
      [] p = "False" -> "false"
      [] p = "TRUE" -> "true"
      [] OTHER -> p

lower(text) == [i \in DOMAIN text |-> lower_piece(text[i])]

----------------------------------------------------------------------------
(* JSON documents the remote service may answer with *)

Missing == [t |-> "missing"]
Leaf(name) == Str(<<name>>)

\* a dict of the keys of f whose value is not Missing
MkDict(f) == Dict([k \in {x \in DOMAIN f : f[x] # Missing} |-> f[k]])

FullSize == MkDict([id |-> Leaf("size.id"), acronym |-> Leaf("size.acronym"),
                    text |-> Leaf("size.text")])
CompanyWith(size) ==
    MkDict([name |-> Leaf("company.name"), alias |-> Leaf("company.alias"),
            openingDate |-> Leaf("company.openingDate"),
            legalNature |-> Leaf("company.legalNature"), size |-> size])
FullAddress ==
    MkDict([street |-> Leaf("address.street"), number |-> Leaf("address.number"),
            complement |-> Leaf("address.complement"),
            district |-> Leaf("address.district"), city |-> Leaf("address.city"),
            state |-> Leaf("address.state"), zip |-> Leaf("address.zip")])
FullActivity == MkDict([id |-> Leaf("mainActivity.id"), text |-> Leaf("mainActivity.text")])

Payload(company, address, activity, withStatus) ==
    MkDict([company |-> company, address |-> address, mainActivity |-> activity,
            status |-> IF withStatus THEN Leaf("status") ELSE Missing,
            statusDate |-> IF withStatus THEN Leaf("statusDate") ELSE Missing,
            headquarterOrBranch |-> IF withStatus THEN Leaf("headquarterOrBranch") ELSE Missing])

FullPayload == Payload(CompanyWith(FullSize), FullAddress, FullActivity, TRUE)

\* a JSON array or string where an object is expected
JunkDocs == {List(1), Leaf("text")}

SizeOptions == {Missing, None, Dict(EmptyMap), FullSize,
                MkDict([id |-> Leaf("size.id"), acronym |-> Missing, text |-> Missing])}
                \cup JunkDocs
CompanyOptions == {Missing, None, Dict(EmptyMap)} \cup JunkDocs
                  \cup {CompanyWith(sz) : sz \in SizeOptions}
AddressOptions == {Missing, None, Dict(EmptyMap), FullAddress, List(1),
                   MkDict([street |-> Missing, number |-> Missing, complement |-> Missing,
                           district |-> Missing, city |-> Leaf("address.city"),
                           state |-> Missing, zip |-> Missing])}
ActivityOptions == {Missing, None, Dict(EmptyMap), FullActivity, List(1)}

Payloads == {None, List(0)} \cup JunkDocs
            \cup {Payload(c, a, m, st) : c \in CompanyOptions, a \in AddressOptions,
                                         m \in ActivityOptions, st \in BOOLEAN}

----------------------------------------------------------------------------
(* fetch_cnpj_data: one HTTP attempt per step *)

max_retries == 5
BackoffUnitMs == 1000

\* descriptions of the network errors requests.get can raise
ExceptionTexts == {"timeout", "dns"}

\* response.json(): the parsed document, or ValueError
InvalidBody == [json |-> FALSE]
JsonBody(doc) == [json |-> TRUE, doc |-> doc]

Response(status, body) == [status |-> status, body |-> body]

\* what the remote service answers: 200 with a JSON object, with a body that
\* is not JSON, with JSON null, with a JSON array; 429; 500 with a JSON object
Responses ==
    {Response(200, JsonBody(FullPayload)), Response(200, InvalidBody),
     Response(200, JsonBody(None)), Response(200, JsonBody(List(1))),
     Response(429, InvalidBody), Response(500, JsonBody(FullPayload))}

fetch_start ==
    /\ fpc' = "try"
    /\ attempt' = 0
    /\ last_exception_str' = None
    /\ http_log' = <<>>
    /\ last_raised' = ""
    /\ sleeps' = <<>>
    /\ api_result' = None
    /\ UNCHANGED requests

\* the call is over: its locals are gone
fetch_leaves ==
    /\ fpc' = "idle"
    /\ attempt' = 0
    /\ last_exception_str' = None
    /\ http_log' = <<>>
    /\ last_raised' = ""
    /\ sleeps' = <<>>
    /\ UNCHANGED <<api_result, requests>>

\* a faulty variant: any 200 is a success, parsed or not
result_of_response_any200(status, body) ==
    LET json_data == IF body.json THEN body.doc ELSE None
    IN  IF status = 200
        THEN [success |-> Bool(TRUE), error |-> None,
              http_status |-> PyInt(200), data |-> json_data]
        ELSE [success |-> Bool(FALSE),
              error |-> Str(<<"http_error_", ToString(status)>>),
              http_status |-> PyInt(status), data |-> json_data]

\* lines 121-142: what the call returns once a response has arrived
result_of_response(status, body) ==
    LET json_data == IF body.json THEN body.doc ELSE None
    IN  IF status = 200 /\ json_data # None
        THEN [success |-> Bool(TRUE), error |-> None,
              http_status |-> PyInt(200), data |-> json_data]
        ELSE [success |-> Bool(FALSE),
              error |-> Str(<<"http_error_", ToString(status)>>),
              http_status |-> PyInt(status), data |-> json_data]

\* lines 153-159
result_of_exhaustion(exc) ==
    [success |-> Bool(FALSE),
     error |-> Str(<<"request_exception: ">> \o py_str(exc)),
     http_status |-> None, data |-> None]

\* faulty variants: the sleep grows by a second, or stays at a second
backoff_ms_linear(k) == BackoffUnitMs * (k + 1)
backoff_ms_fixed(k) == BackoffUnitMs

\* line 150: sleep_time = 2 ** attempt
backoff_ms(k) == BackoffUnitMs * Pow2(k)

\* a faulty variant: a status other than 200 goes on to the next attempt
response_returns_only_200(status) == status = 200

\* lines 128-142: both branches of the if return from the call
response_returns(status) == TRUE

FetchResponse ==
    /\ fpc = "try"
    /\ attempt < max_retries
    /\ \E resp \in Responses :
          /\ http_log' = Append(http_log, [kind |-> "response", status |-> resp.status,
                                            body |-> resp.body])
          /\ IF response_returns(resp.status)
             THEN /\ api_result' = result_of_response(resp.status, resp.body)
                  /\ fpc' = "returned"
                  /\ UNCHANGED attempt
             ELSE /\ attempt' = attempt + 1
                  /\ UNCHANGED <<api_result, fpc>>
    /\ UNCHANGED <<last_exception_str, last_raised, sleeps>>
    /\ requests' = requests + 1
    /\ UNCHANGED <<drv_vars, pure_vars>>

FetchException ==
    /\ fpc = "try"
    /\ attempt < max_retries
    /\ \E text \in ExceptionTexts :
          /\ last_raised' = text
          /\ last_exception_str' = Str(<<text>>)
    /\ http_log' = Append(http_log, [kind |-> "exception"])
    /\ sleeps' = Append(sleeps, backoff_ms(attempt))
    /\ attempt' = attempt + 1
    /\ requests' = requests + 1
    /\ UNCHANGED <<fpc, api_result>>
    /\ UNCHANGED <<drv_vars, pure_vars>>

FetchExhausted ==
    /\ fpc = "try"
    /\ attempt >= max_retries
    /\ api_result' = result_of_exhaustion(last_exception_str)
    /\ fpc' = "returned"
    /\ UNCHANGED <<attempt, last_exception_str, http_log, last_raised, sleeps, requests>>
    /\ UNCHANGED <<drv_vars, pure_vars>>

----------------------------------------------------------------------------
(* files and tables *)

\* A CSV file is a header and rows of cells, each cell a text (a sequence of
\* pieces).  A DataFrame is columns and rows of Python values, by position;
\* its index is 0, 1, ..., so row idx is rows[idx + 1].

CNPJ_COLUMN_NAME == "cnpj_normalizadoapi"
MAX_REQUESTS_PER_MINUTE == 60

NoFile == [exists |-> FALSE]
\* `by` records where the table comes from: the user, the full run, or a
\* retry-only run over a table of the full run; the program never reads it
File(header, rows, by) == [exists |-> TRUE, header |-> header, rows |-> rows, by |-> by]
Frame(columns, rows) == [columns |-> columns, rows |-> rows]

IndexOf(q, x) == CHOOSE i \in DOMAIN q : q[i] = x

\* read_csv renames a repeated header: x, x.1, x.2, ...
mangle(header) ==
    [i \in DOMAIN header |->
        LET n == Cardinality({j \in 1..(i - 1) : header[j] = header[i]})
        IN  IF n = 0 THEN header[i] ELSE header[i] \o "." \o ToString(n)]

\* read_csv(dtype=str): an empty cell is NaN, any other a str
read_cell(text) == IF text = <<>> THEN NaN ELSE Str(text)

read_csv(file) ==
    Frame(mangle(file.header),
          [r \in DOMAIN file.rows |->
              [i \in DOMAIN file.header |-> read_cell(file.rows[r][i])]])

\* to_csv: a missing value is an empty cell, any other str(value)
to_csv_cell(v) == IF isna(v) THEN <<>> ELSE py_str(v)

to_csv(frame, by) ==
    File(frame.columns,
         [r \in DOMAIN frame.rows |->
             [i \in DOMAIN frame.columns |-> to_csv_cell(frame.rows[r][i])]],
         by)

\* frame.at[idx, col], row.get(col, None)
at(frame, i, col) == frame.rows[i + 1][IndexOf(frame.columns, col)]
row_get(frame, i, col) ==
    IF col \in Range(frame.columns) THEN at(frame, i, col) ELSE None

\* frame[col] = values: a new column goes last
set_column(frame, col, values) ==
    IF col \in Range(frame.columns)
    THEN Frame(frame.columns,
               [r \in DOMAIN frame.rows |->
                   [frame.rows[r] EXCEPT ![IndexOf(frame.columns, col)] = values[r]]])
    ELSE Frame(Append(frame.columns, col),
               [r \in DOMAIN frame.rows |-> Append(frame.rows[r], values[r])])

\* frame.at[idx, col] = rec[col] for each col of cols, in order: a column that
\* does not exist yet is added last, NaN in the other rows
set_all(frame, i, cols, rec) ==
    LET fresh(c) == c \notin Range(frame.columns)
        columns == frame.columns \o SelectSeq(cols, fresh)
        old == Len(frame.columns)
    IN  Frame(columns,
              [r \in DOMAIN frame.rows |->
                  [j \in DOMAIN columns |->
                      IF r = i + 1 /\ columns[j] \in Range(cols)
                         /\ j = IndexOf(columns, columns[j])
                      THEN rec[columns[j]]
                      ELSE IF j <= old THEN frame.rows[r][j] ELSE NaN]])

\* frame.at[idx, col] = val
set_at(frame, i, col, val) == set_all(frame, i, <<col>>, [c \in {col} |-> val])

----------------------------------------------------------------------------
(* the driver: what both entry points share *)

MaxRows == 2
MaxRuns == 2
Max429 == 3
Wait429Ms == 60000
PauseMs == 500

Window60Ms == 60000

\* a faulty variant: at the cap the call sleeps a whole minute
sleep_if_necessary_whole_minute(count, start, t, lag) ==
    IF count >= MAX_REQUESTS_PER_MINUTE
    THEN [slept |-> Window60Ms, request_count |-> 0,
          start_window |-> t + Window60Ms + lag, now |-> t + Window60Ms + lag]
    ELSE [slept |-> 0, request_count |-> count, start_window |-> start, now |-> t]

\* lines 233-244, called at time t with the counter and the window start; lag
\* is what passes between the end of the sleep and time.time() of line 242.
\* slept is the argument of time.sleep (0: not called), now the time at return
sleep_if_necessary_timed(count, start, t, lag) ==
    LET elapsed == t - start
        wait_time == IF elapsed < Window60Ms THEN Window60Ms - elapsed ELSE 0
    IN  IF count >= MAX_REQUESTS_PER_MINUTE
        THEN [slept |-> wait_time, request_count |-> 0,
              start_window |-> t + wait_time + lag, now |-> t + wait_time + lag]
        ELSE [slept |-> 0, request_count |-> count, start_window |-> start, now |-> t]

\* lines 222-244, the counter only: at the cap the window is reset
sleep_if_necessary(count) ==
    IF count >= MAX_REQUESTS_PER_MINUTE THEN 0 ELSE count

\* `not cnpj`
not_cnpj(v) == ~Truthy(v)

\* a faulty variant: every failure is taken for a 429
is_429_any_error(result) == result.success = Bool(FALSE)

\* lines 311-313: http_status == 429
is_429(result) == result.http_status = PyInt(429)

\* a faulty variant: one more call before giving up
give_up_429_late(n) == n > Max429

\* line 315: attempts_429 >= 3
give_up_429(n) == n >= Max429

\* a faulty variant: the statements after the loop run before it has ended
loop_over_early(rest) == TRUE

\* lines 286, 392: the for loop ends when no row is left
loop_over(rest) == rest = <<>>

\* what the log of calls keeps of a result: all but the payload
envelope(result) ==
    [success |-> result.success, error |-> result.error, http_status |-> result.http_status]

run_begins(e) ==
    /\ pc \in {"idle", "done", "raised"}
    /\ runs < MaxRuns
    /\ runs' = runs + 1
    /\ entry' = e
    /\ writes' = 0
    /\ queried' = {}
    /\ calls' = <<>>
    /\ waits' = <<>>
    /\ resultados' = <<>>
    /\ api_result' = None
    /\ UNCHANGED <<fpc, attempt, last_exception_str, http_log, last_raised, sleeps>>
    /\ requests' = 0
    /\ UNCHANGED <<START_INDEX, input_csv, output_csv>>
    /\ UNCHANGED pure_vars

run_raises(e) ==
    /\ pc' = "raised"
    /\ raised' = e

\* the call of fetch_cnpj_data (lines 309-310, 410-411)
Query(e) ==
    /\ entry = e
    /\ pc = "query"
    /\ fetch_start
    /\ queried' = queried \cup {idx}
    /\ pc' = "fetching"
    /\ UNCHANGED <<runs, entry, raised, START_INDEX, input_csv, output_csv, writes, df,
                   todo, idx, cnpj_raw, cnpj, resultados, request_count,
                   attempts_429, calls, waits>>
    /\ UNCHANGED pure_vars

\* the call returned 429 and is repeated after a minute (lines 313-320, 414-421)
Retry429(e) ==
    /\ entry = e
    /\ pc = "fetching"
    /\ fpc = "returned"
    /\ is_429(api_result)
    /\ ~give_up_429(attempts_429 + 1)
    /\ attempts_429' = attempts_429 + 1
    /\ calls' = Append(calls, envelope(api_result))
    /\ waits' = Append(waits, Wait429Ms)
    /\ fetch_leaves
    /\ pc' = "query"
    /\ UNCHANGED <<runs, entry, raised, START_INDEX, input_csv, output_csv, writes, df,
                   todo, idx, cnpj_raw, cnpj, resultados, request_count, queried>>
    /\ UNCHANGED pure_vars

\* the third 429 in a row: break (lines 315-317, 416-418)
GiveUp429(e) ==
    /\ entry = e
    /\ pc = "fetching"
    /\ fpc = "returned"
    /\ is_429(api_result)
    /\ give_up_429(attempts_429 + 1)
    /\ attempts_429' = attempts_429 + 1
    /\ calls' = Append(calls, envelope(api_result))
    /\ fetch_leaves
    /\ pc' = "record"
    /\ UNCHANGED <<runs, entry, raised, START_INDEX, input_csv, output_csv, writes, df,
                   todo, idx, cnpj_raw, cnpj, resultados, request_count, waits, queried>>
    /\ UNCHANGED pure_vars

\* any other status: break (lines 321-322, 422-423)
NotLimited(e) ==
    /\ entry = e
    /\ pc = "fetching"
    /\ fpc = "returned"
    /\ ~is_429(api_result)
    /\ calls' = Append(calls, envelope(api_result))
    /\ fetch_leaves
    /\ pc' = "record"
    /\ UNCHANGED <<runs, entry, raised, START_INDEX, input_csv, output_csv, writes, df,
                   todo, idx, cnpj_raw, cnpj, resultados, request_count,
                   attempts_429, waits, queried>>
    /\ UNCHANGED pure_vars

----------------------------------------------------------------------------
(* main *)

\* the keys of the dict extract_fields returns, in its order
FieldKeys ==
    <<"api_success", "api_http_status", "api_error",
      "razao_social", "nome_fantasia", "data_abertura", "natureza_juridica",
      "porte_id", "porte_sigla", "porte_descricao",
      "cnae_principal_codigo", "cnae_principal_descricao",
      "endereco_logradouro", "endereco_numero", "endereco_complemento",
      "endereco_bairro", "endereco_cidade", "endereco_uf", "endereco_cep",
      "situacao_cadastral", "data_situacao_cadastral", "matriz_ou_filial">>
OwnKeys == <<"index_origem", "cnpj_original", "cnpj_normalizado">>
\* the keys of a record of resultados: lines 327-330, and lines 293-300
FullKeys == FieldKeys \o OwnKeys
InvalidKeys == OwnKeys \o <<"api_success", "api_http_status", "api_error">>

keys_of(rec) == IF "razao_social" \in DOMAIN rec THEN FullKeys ELSE InvalidKeys

invalid_record(i, raw, norm) ==
    [index_origem |-> PyInt(i), cnpj_original |-> raw, cnpj_normalizado |-> norm,
     api_success |-> Bool(FALSE), api_http_status |-> None,
     api_error |-> Str(<<"cnpj_invalido">>)]

full_record(fields, i, raw, norm) ==
    [k \in Range(FullKeys) |->
        CASE k = "index_origem" -> PyInt(i)
          [] k = "cnpj_original" -> raw
          [] k = "cnpj_normalizado" -> norm
          [] OTHER -> fields[k]]

\* pd.DataFrame(resultados): the columns are the keys in order of first
\* appearance, a key a record lacks is NaN there
RECURSIVE first_seen(_, _)
first_seen(recs, acc) ==
    IF recs = <<>> THEN acc
    ELSE LET fresh(k) == k \notin Range(acc)
         IN  first_seen(Tail(recs), acc \o SelectSeq(keys_of(Head(recs)), fresh))

results_frame(recs) ==
    LET cols == first_seen(recs, <<>>)
    IN  Frame(cols,
              [r \in DOMAIN recs |->
                  [i \in DOMAIN cols |->
                      IF cols[i] \in DOMAIN recs[r] THEN recs[r][cols[i]] ELSE NaN]])

\* a column of whole numbers with a missing value in it is a float column
as_float(v) == IF v.t = "int" THEN PyFloat(v.n) ELSE v

\* df.join(df_resultados.set_index("index_origem"), how="left", rsuffix="api"):
\* a column of the right side whose name the left side has gets the suffix

join_left(left, right) ==
    LET keep(c) == c # "index_origem"
        rcols == SelectSeq(right.columns, keep)
        named == [i \in DOMAIN rcols |->
                     IF rcols[i] \in Range(left.columns) THEN rcols[i] \o "api"
                     ELSE rcols[i]]
        hit(r) == {k \in DOMAIN right.rows : at(right, k - 1, "index_origem") = PyInt(r - 1)}
        holes(c) == \/ \E r \in DOMAIN left.rows : hit(r) = {}
                    \/ \E k \in DOMAIN right.rows : isna(at(right, k - 1, c))
        cell(r, c) ==
            IF hit(r) = {} THEN NaN
            ELSE LET v == at(right, (CHOOSE k \in hit(r) : TRUE) - 1, c)
                 IN  IF c = "api_http_status" /\ holes(c) THEN as_float(v) ELSE v
    IN  Frame(left.columns \o named,
              [r \in DOMAIN left.rows |->
                  left.rows[r] \o [i \in DOMAIN rcols |-> cell(r, rcols[i])]])

\* df.iloc[START_INDEX:]: the positions it selects in a table of n rows
iloc_from(n, start) ==
    LET first == IF start < 0 THEN (IF n + start < 0 THEN 0 ELSE n + start)
                 ELSE (IF start > n THEN n ELSE start)
    IN  [i \in 1..(n - first) |-> first + i - 1]

MainFileMissing ==
    /\ runs = 0
    /\ run_begins("main")
    /\ ~input_csv.exists
    /\ run_raises("FileNotFoundError")
    /\ UNCHANGED <<df, todo, idx, cnpj_raw, cnpj, request_count, attempts_429>>

MainColumnMissing ==
    /\ runs = 0
    /\ run_begins("main")
    /\ input_csv.exists
    /\ CNPJ_COLUMN_NAME \notin Range(read_csv(input_csv).columns)
    /\ run_raises("ValueError")
    /\ df' = read_csv(input_csv)
    /\ UNCHANGED <<todo, idx, cnpj_raw, cnpj, request_count, attempts_429>>

\* lines 266-286: read, normalize every row, start the loop
MainRead ==
    /\ runs = 0
    /\ run_begins("main")
    /\ input_csv.exists
    /\ LET table == read_csv(input_csv)
       IN  /\ CNPJ_COLUMN_NAME \in Range(table.columns)
           /\ df' = set_column(table, "cnpj_normalizado",
                               [r \in DOMAIN table.rows |->
                                   normalize_cnpj(at(table, r - 1, CNPJ_COLUMN_NAME))])
           /\ todo' = iloc_from(Len(table.rows), START_INDEX)
    /\ request_count' = 0
    /\ pc' = "loop"
    /\ raised' = ""
    /\ UNCHANGED <<idx, cnpj_raw, cnpj, attempts_429>>

\* lines 286-301: a row whose identifier is invalid or missing
MainInvalidRow ==
    /\ entry = "main"
    /\ pc = "loop"
    /\ todo # <<>>
    /\ LET i == Head(todo)
           raw == at(df, i, CNPJ_COLUMN_NAME)
           norm == at(df, i, "cnpj_normalizado")
       IN  /\ not_cnpj(norm)
           /\ idx' = i
           /\ cnpj_raw' = raw
           /\ cnpj' = norm
           /\ resultados' = Append(resultados, invalid_record(i, raw, norm))
    /\ todo' = Tail(todo)
    /\ calls' = <<>>
    /\ waits' = <<>>
    /\ UNCHANGED <<runs, entry, pc, raised, START_INDEX, input_csv, output_csv, writes, df,
                   request_count, attempts_429, queried>>
    /\ requests' = 0
    /\ UNCHANGED <<call_vars, pure_vars>>

\* lines 286-307: a row with an identifier, up to the 429 loop
MainValidRow ==
    /\ entry = "main"
    /\ pc = "loop"
    /\ todo # <<>>
    /\ LET i == Head(todo)
           raw == at(df, i, CNPJ_COLUMN_NAME)
           norm == at(df, i, "cnpj_normalizado")
       IN  /\ ~not_cnpj(norm)
           /\ idx' = i
           /\ cnpj_raw' = raw
           /\ cnpj' = norm
    /\ todo' = Tail(todo)
    /\ request_count' = sleep_if_necessary(request_count)
    /\ attempts_429' = 0
    /\ calls' = <<>>
    /\ waits' = <<>>
    /\ pc' = "query"
    /\ UNCHANGED <<runs, entry, raised, START_INDEX, input_csv, output_csv, writes, df,
                   resultados, queried>>
    /\ requests' = 0
    /\ UNCHANGED <<call_vars, pure_vars>>

\* lines 324-335
MainRecord ==
    /\ entry = "main"
    /\ pc = "record"
    /\ LET fields == extract_fields(api_result)
       IN  /\ ~is_raise(fields)
           /\ resultados' = Append(resultados, full_record(fields, idx, cnpj_raw, cnpj))
    /\ request_count' = request_count + 1
    /\ waits' = Append(waits, PauseMs)
    /\ pc' = "loop"
    /\ UNCHANGED <<runs, entry, raised, START_INDEX, input_csv, output_csv, writes, df,
                   todo, idx, cnpj_raw, cnpj, attempts_429, calls, queried>>
    /\ api_result' = None
    /\ UNCHANGED <<fpc, attempt, last_exception_str, http_log, last_raised, sleeps>>
    /\ UNCHANGED requests
    /\ UNCHANGED pure_vars

\* lines 324-327: extract_fields raises, and nothing catches it
MainExtractRaises ==
    /\ entry = "main"
    /\ pc = "record"
    /\ is_raise(extract_fields(api_result))
    /\ request_count' = request_count + 1
    /\ run_raises(extract_fields(api_result).exc)
    /\ UNCHANGED <<runs, entry, START_INDEX, input_csv, output_csv, writes, df, todo, idx,
                   cnpj_raw, cnpj, resultados, attempts_429, calls, waits, queried>>
    /\ UNCHANGED <<fetch_vars, pure_vars>>

\* lines 338-342: no record, so no column index_origem to index by
MainJoinRaises ==
    /\ entry = "main"
    /\ pc = "loop"
    /\ loop_over(todo)
    /\ "index_origem" \notin Range(results_frame(resultados).columns)
    /\ run_raises("KeyError")
    /\ UNCHANGED <<runs, entry, START_INDEX, input_csv, output_csv, writes, df, todo, idx,
                   cnpj_raw, cnpj, resultados, request_count, attempts_429, calls,
                   waits, queried>>
    /\ UNCHANGED <<fetch_vars, pure_vars>>

\* lines 338-349
MainWrite ==
    /\ entry = "main"
    /\ pc = "loop"
    /\ loop_over(todo)
    /\ "index_origem" \in Range(results_frame(resultados).columns)
    /\ output_csv' = to_csv(join_left(df, results_frame(resultados)), "main")
    /\ writes' = writes + 1
    /\ pc' = "done"
    /\ UNCHANGED <<runs, entry, raised, START_INDEX, input_csv, df, todo, idx,
                   cnpj_raw, cnpj, resultados, request_count, attempts_429, calls,
                   waits, queried>>
    /\ UNCHANGED <<fetch_vars, pure_vars>>

----------------------------------------------------------------------------
(* reprocess_failed *)

\* a faulty variant: only the rows marked false are retried
mask_retry_false_only(frame, i) == lower(py_str(at(frame, i, "api_success"))) = <<"false">>

\* line 374: api_success, as text in lower case, is not "true"
mask_retry(frame, i) == lower(py_str(at(frame, i, "api_success"))) # <<"true">>

\* df_retry.index: the indexes of the rows to retry, ascending
retry_index(frame) ==
    LET sel == {i \in 0..(Len(frame.rows) - 1) : mask_retry(frame, i)}
    IN  [n \in 1..Cardinality(sel) |->
            CHOOSE i \in sel : Cardinality({j \in sel : j < i}) = n - 1]

ReprocessFileMissing ==
    /\ run_begins("reprocess_failed")
    /\ ~output_csv.exists
    /\ run_raises("FileNotFoundError")
    /\ UNCHANGED <<df, todo, idx, cnpj_raw, cnpj, request_count, attempts_429>>

ReprocessColumnMissing ==
    /\ run_begins("reprocess_failed")
    /\ output_csv.exists
    /\ "api_success" \notin Range(read_csv(output_csv).columns)
    /\ run_raises("ValueError")
    /\ df' = read_csv(output_csv)
    /\ UNCHANGED <<todo, idx, cnpj_raw, cnpj, request_count, attempts_429>>

\* lines 380-386: no row to retry, return without writing
ReprocessNothing ==
    /\ run_begins("reprocess_failed")
    /\ output_csv.exists
    /\ LET table == read_csv(output_csv)
       IN  /\ "api_success" \in Range(table.columns)
           /\ retry_index(table) = <<>>
           /\ df' = table
    /\ pc' = "done"
    /\ raised' = ""
    /\ UNCHANGED <<todo, idx, cnpj_raw, cnpj, request_count, attempts_429>>

\* lines 368-392
ReprocessRead ==
    /\ run_begins("reprocess_failed")
    /\ output_csv.exists
    /\ LET table == read_csv(output_csv)
       IN  /\ "api_success" \in Range(table.columns)
           /\ retry_index(table) # <<>>
           /\ df' = table
           /\ todo' = retry_index(table)
    /\ request_count' = 0
    /\ pc' = "loop"
    /\ raised' = ""
    /\ UNCHANGED <<idx, cnpj_raw, cnpj, attempts_429>>

\* lines 392-403
ReprocessInvalidRow ==
    /\ entry = "reprocess_failed"
    /\ pc = "loop"
    /\ todo # <<>>
    /\ LET i == Head(todo)
           raw == row_get(df, i, CNPJ_COLUMN_NAME)
           norm == row_get(df, i, "cnpj_normalizado")
       IN  /\ not_cnpj(norm)
           /\ idx' = i
           /\ cnpj_raw' = raw
           /\ cnpj' = norm
           /\ df' = set_at(set_at(df, i, "api_success", Bool(FALSE)),
                           i, "api_error", Str(<<"cnpj_invalido_retry">>))
    /\ todo' = Tail(todo)
    /\ calls' = <<>>
    /\ waits' = <<>>
    /\ UNCHANGED <<runs, entry, pc, raised, START_INDEX, input_csv, output_csv, writes,
                   resultados, request_count, attempts_429, queried>>
    /\ requests' = 0
    /\ UNCHANGED <<call_vars, pure_vars>>

\* lines 392-408
ReprocessValidRow ==
    /\ entry = "reprocess_failed"
    /\ pc = "loop"
    /\ todo # <<>>
    /\ LET i == Head(todo)
           raw == row_get(df, i, CNPJ_COLUMN_NAME)
           norm == row_get(df, i, "cnpj_normalizado")
       IN  /\ ~not_cnpj(norm)
           /\ idx' = i
           /\ cnpj_raw' = raw
           /\ cnpj' = norm
    /\ todo' = Tail(todo)
    /\ request_count' = sleep_if_necessary(request_count)
    /\ attempts_429' = 0
    /\ calls' = <<>>
    /\ waits' = <<>>
    /\ pc' = "query"
    /\ UNCHANGED <<runs, entry, raised, START_INDEX, input_csv, output_csv, writes, df,
                   resultados, queried>>
    /\ requests' = 0
    /\ UNCHANGED <<call_vars, pure_vars>>

\* lines 425-440
ReprocessRecord ==
    /\ entry = "reprocess_failed"
    /\ pc = "record"
    /\ LET fields == extract_fields(api_result)
       IN  /\ ~is_raise(fields)
           /\ df' = set_at(set_at(set_all(df, idx, FieldKeys, fields),
                                  idx, "cnpj_original", cnpj_raw),
                           idx, "cnpj_normalizado", cnpj)
    /\ request_count' = request_count + 1
    /\ pc' = "loop"
    /\ UNCHANGED <<runs, entry, raised, START_INDEX, input_csv, output_csv, writes,
                   todo, idx, cnpj_raw, cnpj, resultados, attempts_429, calls, waits,
                   queried>>
    /\ api_result' = None
    /\ UNCHANGED <<fpc, attempt, last_exception_str, http_log, last_raised, sleeps>>
    /\ UNCHANGED requests
    /\ UNCHANGED pure_vars

\* lines 425-428: extract_fields raises, and nothing catches it
ReprocessExtractRaises ==
    /\ entry = "reprocess_failed"
    /\ pc = "record"
    /\ is_raise(extract_fields(api_result))
    /\ request_count' = request_count + 1
    /\ run_raises(extract_fields(api_result).exc)
    /\ UNCHANGED <<runs, entry, START_INDEX, input_csv, output_csv, writes, df, todo, idx,
                   cnpj_raw, cnpj, resultados, attempts_429, calls, waits, queried>>
    /\ UNCHANGED <<fetch_vars, pure_vars>>

\* lines 442-444
ReprocessWrite ==
    /\ entry = "reprocess_failed"
    /\ pc = "loop"
    /\ loop_over(todo)
    /\ output_csv' = to_csv(df, IF output_csv.by = "user" THEN "user"
                                  ELSE "reprocess_failed")
    /\ writes' = writes + 1
    /\ pc' = "done"
    /\ UNCHANGED <<runs, entry, raised, START_INDEX, input_csv, df, todo, idx,
                   cnpj_raw, cnpj, resultados, request_count, attempts_429, calls,
                   waits, queried>>
    /\ UNCHANGED <<fetch_vars, pure_vars>>

MainQuery == Query("main")
MainRetry429 == Retry429("main")
MainGiveUp429 == GiveUp429("main")
MainNotLimited == NotLimited("main")
ReprocessQuery == Query("reprocess_failed")
ReprocessRetry429 == Retry429("reprocess_failed")
ReprocessGiveUp429 == GiveUp429("reprocess_failed")
ReprocessNotLimited == NotLimited("reprocess_failed")

----------------------------------------------------------------------------
(* the runs of the driver *)

Unset == [t |-> "unset"]

ValidRaw == <<"1", "2", ".", "3", "4", "5", ".", "6", "7", "8", "/",
              "0", "0", "0", "1", "-", "9", "5">>
ShortRaw == <<"1", "2", "3">>
\* a cell of the identifier column: empty, too short, well formed
RawTexts == {<<>>, ShortRaw, ValidRaw}

RowIds == <<"r1", "r2", "r3", "r4">>

InputTables ==
    UNION {[1..n -> RawTexts] : n \in 0..MaxRows}
InputFiles ==
    {NoFile, File(<<"id_crm">>, <<<<(<<"r1">>)>>>>, "user")}
    \cup {File(<<"id_crm", CNPJ_COLUMN_NAME>>,
               [r \in DOMAIN t |-> <<(<<RowIds[r]>>), t[r]>>], "user") : t \in InputTables}
\* files at the output path that no run of this program wrote
ForeignFiles ==
    {File(<<"id_crm">>, <<<<(<<"r1">>)>>>>, "user"),
     File(<<"id_crm", "api_success">>,
          <<<<(<<"r1">>), (<<"True">>)>>, <<(<<"r2">>), (<<"False">>)>>>>, "user")}
StartIndexes == (0 - 1)..MaxRows

Idle ==
    /\ runs = 0
    /\ entry = "none"
    /\ pc = "idle"
    /\ raised = ""
    /\ writes = 0
    /\ df = Frame(<<>>, <<>>)
    /\ todo = <<>>
    /\ idx = 0
    /\ cnpj_raw = None
    /\ cnpj = None
    /\ resultados = <<>>
    /\ request_count = 0
    /\ attempts_429 = 0
    /\ calls = <<>>
    /\ waits = <<>>
    /\ queried = {}
    /\ fpc = "idle"
    /\ attempt = 0
    /\ last_exception_str = None
    /\ http_log = <<>>
    /\ sleeps = <<>>
    /\ api_result = None
    /\ last_raised = ""
    /\ requests = 0

\* no timed run
ClockOff ==
    /\ now = 0
    /\ window_start = 0
    /\ stamps = <<>>
    /\ rpc = "off"
    /\ plan = Unset

Init ==
    /\ Idle
    /\ ClockOff
    /\ \/ /\ input_csv \in InputFiles
          /\ output_csv = NoFile
          /\ START_INDEX \in StartIndexes
       \/ /\ input_csv = NoFile
          /\ output_csv \in ForeignFiles
          /\ START_INDEX = 0
    /\ arg = Unset
    /\ ret = Unset
    /\ ret2 = Unset

Next ==
    \/ MainFileMissing
    \/ MainColumnMissing
    \/ MainRead
    \/ MainInvalidRow
    \/ MainValidRow
    \/ MainQuery
    \/ MainRetry429
    \/ MainGiveUp429
    \/ MainNotLimited
    \/ MainRecord
    \/ MainExtractRaises
    \/ MainJoinRaises
    \/ MainWrite
    \/ ReprocessFileMissing
    \/ ReprocessColumnMissing
    \/ ReprocessNothing
    \/ ReprocessRead
    \/ ReprocessInvalidRow
    \/ ReprocessValidRow
    \/ ReprocessQuery
    \/ ReprocessRetry429
    \/ ReprocessGiveUp429
    \/ ReprocessNotLimited
    \/ ReprocessRecord
    \/ ReprocessExtractRaises
    \/ ReprocessWrite
    \/ FetchResponse
    \/ FetchException
    \/ FetchExhausted

Spec == Init /\ [][Next]_vars

----------------------------------------------------------------------------
(* normalize_cnpj and extract_fields on their own *)

MaxRawLen == 3

RawAlphabet == {"7", "0", "-"}
Pad12 == <<"1", "2", "3", "4", "5", "6", "7", "8", "0", "0", "0", "1">>
ShortTexts == UNION {[1..n -> RawAlphabet] : n \in 0..MaxRawLen}
\* absent, short texts, and texts of 12 digits and more
RawInputs ==
    {None, NaN, Str(ValidRaw), Str(ShortRaw)}
    \cup {Str(t) : t \in ShortTexts}
    \cup {Str(Pad12 \o t) : t \in ShortTexts}
    \cup {Str(t \o Pad12) : t \in ShortTexts}

\* the results fetch_cnpj_data can return, over every document of Payloads
ApiResults ==
    {result_of_response(st, b) :
        st \in {200, 500}, b \in {InvalidBody} \cup {JsonBody(d) : d \in Payloads}}
    \cup {result_of_exhaustion(Str(<<"timeout">>))}

Applied(fn, x) == [fn |-> fn, x |-> x]

InitNormalize ==
    /\ Idle
    /\ ClockOff
    /\ input_csv = NoFile
    /\ output_csv = NoFile
    /\ START_INDEX = 0
    /\ arg \in {Applied("normalize_cnpj", x) : x \in RawInputs}
    /\ ret = Unset
    /\ ret2 = Unset

Normalize ==
    /\ arg # Unset
    /\ arg.fn = "normalize_cnpj"
    /\ ret = Unset
    /\ ret' = normalize_cnpj(arg.x)
    /\ UNCHANGED <<arg, ret2, drv_vars, fetch_vars, time_vars>>

NormalizeAgain ==
    /\ arg # Unset
    /\ arg.fn = "normalize_cnpj"
    /\ ret # Unset
    /\ ret2 = Unset
    /\ ret2' = normalize_cnpj(ret)
    /\ UNCHANGED <<arg, ret, drv_vars, fetch_vars, time_vars>>

NextNormalize == Normalize \/ NormalizeAgain

SpecNormalize == InitNormalize /\ [][NextNormalize]_vars

InitExtract ==
    /\ Idle
    /\ ClockOff
    /\ input_csv = NoFile
    /\ output_csv = NoFile
    /\ START_INDEX = 0
    /\ arg \in {Applied("extract_fields", x) : x \in ApiResults}
    /\ ret = Unset
    /\ ret2 = Unset

Flatten ==
    /\ arg # Unset
    /\ arg.fn = "extract_fields"
    /\ ret = Unset
    /\ ret' = extract_fields(arg.x)
    /\ UNCHANGED <<arg, ret2, drv_vars, fetch_vars, time_vars>>

NextExtract == Flatten

SpecExtract == InitExtract /\ [][NextExtract]_vars

\* sleep_if_necessary on its own: counters below, at and above the cap, windows
\* that started up to two minutes ago
MaxLagMs == 1
LimiterCounts ==
    {0, 1, MAX_REQUESTS_PER_MINUTE - 1, MAX_REQUESTS_PER_MINUTE, MAX_REQUESTS_PER_MINUTE + 1}
LimiterStarts == {0, 1000}
LimiterElapsed == {0, 1, 500, 30000, Window60Ms - 1, Window60Ms, Window60Ms + 1, 2 * Window60Ms}
LimiterInputs ==
    {[request_count |-> c, start_window |-> w, now |-> w + e, lag |-> l] :
        c \in LimiterCounts, w \in LimiterStarts, e \in LimiterElapsed, l \in 0..MaxLagMs}

InitLimiter ==
    /\ Idle
    /\ ClockOff
    /\ input_csv = NoFile
    /\ output_csv = NoFile
    /\ START_INDEX = 0
    /\ arg \in {Applied("sleep_if_necessary", x) : x \in LimiterInputs}
    /\ ret = Unset
    /\ ret2 = Unset

Limit ==
    /\ arg # Unset
    /\ arg.fn = "sleep_if_necessary"
    /\ ret = Unset
    /\ ret' = sleep_if_necessary_timed(arg.x.request_count, arg.x.start_window,
                                       arg.x.now, arg.x.lag)
    /\ UNCHANGED <<arg, ret2, drv_vars, fetch_vars, time_vars>>

NextLimiter == Limit

SpecLimiter == InitLimiter /\ [][NextLimiter]_vars

\* The row loop of main with its clock, lines 279-335, over rows that all have
\* a valid identifier.  A plan fixes what the remote service does in a run:
\* every lookup meets `fails` network errors and then an answer other than
\* 429; an HTTP request takes `took` ms, the first lookup's `first` ms.  The
\* time the program itself computes in counts as none.
MaxClockMs == 125000
SlowMs == 30000
Plans ==
    {[fails |-> f, took |-> d, first |-> d1] :
        f \in 0..(max_retries - 1), d \in {0, 1000}, d1 \in {0, 1000, SlowMs}}

InitRate ==
    /\ Idle
    /\ input_csv = NoFile
    /\ output_csv = NoFile
    /\ START_INDEX = 0
    /\ arg = Unset
    /\ ret = Unset
    /\ ret2 = Unset
    /\ now = 0
    /\ window_start = 0
    /\ stamps = <<>>
    /\ rpc = "limit"
    /\ plan \in Plans

rate_rest ==
    <<runs, entry, pc, raised, START_INDEX, input_csv, output_csv, writes, df, todo,
      cnpj_raw, cnpj, resultados, attempts_429, calls, waits, queried,
      fpc, last_exception_str, http_log, last_raised, sleeps, api_result,
      requests, arg, ret, ret2, plan>>

\* an HTTP request leaves at the time `now`
requested == Append(SelectSeq(stamps, LAMBDA t : now - t < Window60Ms), now)

\* how long the HTTP request of the current row takes
request_takes == IF idx = 0 THEN plan.first ELSE plan.took

\* lines 303-307
RateLimit ==
    /\ rpc = "limit"
    /\ now <= MaxClockMs
    /\ LET r == sleep_if_necessary_timed(request_count, window_start, now, 0)
       IN  /\ request_count' = r.request_count
           /\ window_start' = r.start_window
           /\ now' = r.now
    /\ attempt' = 0
    /\ rpc' = "request"
    /\ UNCHANGED <<idx, stamps, rate_rest>>

\* lines 111-119, 144-151: the request fails, the client sleeps and goes on
RateRequestFails ==
    /\ rpc = "request"
    /\ attempt < plan.fails
    /\ stamps' = requested
    /\ now' = now + request_takes + backoff_ms(attempt)
    /\ attempt' = attempt + 1
    /\ UNCHANGED <<idx, request_count, window_start, rpc, rate_rest>>

\* lines 111-142, 310-322: the request is answered, the client returns
RateRequestAnswers ==
    /\ rpc = "request"
    /\ attempt = plan.fails
    /\ stamps' = requested
    /\ now' = now + request_takes
    /\ rpc' = "count"
    /\ UNCHANGED <<idx, request_count, window_start, attempt, rate_rest>>

\* lines 324-335
RateCount ==
    /\ rpc = "count"
    /\ request_count' = request_count + 1
    /\ now' = now + PauseMs
    /\ idx' = idx + 1
    /\ rpc' = "limit"
    /\ UNCHANGED <<window_start, stamps, attempt, rate_rest>>

NextRate == RateLimit \/ RateRequestFails \/ RateRequestAnswers \/ RateCount

SpecRate == InitRate /\ [][NextRate]_vars

----------------------------------------------------------------------------
(* what the claims speak of *)

\* a run that got past the file and column checks
ChecksPassed == raised \notin {"FileNotFoundError", "ValueError"}

\* the run is over, one way or the other
RunOver == pc \in {"done", "raised"}

\* a file some run of this program wrote
Produced(file) == file.exists /\ file.by # "user"

\* the identifier of a row normalizes to absent
NormalizesToAbsent(raw) == normalize_cnpj(raw) = None

\* the cell of a file under a column
Cell(file, r, col) == file.rows[r][IndexOf(file.header, col)]

\* the rows (from 0) of a file whose success flag is not true
NotTrueRows(file) ==
    {i \in 0..(Len(file.rows) - 1) :
        Cell(file, i + 1, "api_success") \notin {<<"True">>, <<"true">>, <<"TRUE">>}}

\* n waits of a minute
Minutes(n) == [k \in 1..n |-> 60000]

Waits429 == SelectSeq(waits, LAMBDA w : w = 60000)

LastCall == calls[Len(calls)]

\* the digits of a text, in order
RECURSIVE DigitsOf(_)
DigitsOf(text) ==
    IF text = <<>> THEN <<>>
    ELSE IF Head(text) \in {"0", "1", "2", "3", "4", "5", "6", "7", "8", "9"}
         THEN <<Head(text)>> \o DigitsOf(Tail(text))
         ELSE DigitsOf(Tail(text))

----------------------------------------------------------------------------
(* C1 *)

\* C1: a full run that got past the file and column checks ends with an output
\* file of as many rows as the input table, in the input's order -- for every
\* input table, the empty one included, and every START_INDEX.
C1_RowsPreserved ==
    (entry = "main" /\ RunOver /\ ChecksPassed)
        => /\ Produced(output_csv)
           /\ Len(output_csv.rows) = Len(input_csv.rows)
           /\ \A r \in DOMAIN input_csv.rows :
                 Cell(output_csv, r, "id_crm") = Cell(input_csv, r, "id_crm")

----------------------------------------------------------------------------
(* C2 *)

\* C2: past the file and column checks nothing aborts a full run: whatever the
\* lookups answer, every row the loop has visited has exactly one record, and
\* the run does not end in an exception.
C2_NoRowAborts ==
    (entry = "main" /\ ChecksPassed)
        => /\ pc # "raised"
           /\ pc = "loop" =>
                 Len(resultados) + Len(todo)
                     = Len(iloc_from(Len(df.rows), START_INDEX))

----------------------------------------------------------------------------
(* C3 *)

\* C3: in either entry point, on the program's own tables, a row whose
\* identifier normalizes to absent is never looked up, and it is recorded with
\* success false and the error cnpj_invalido.
C3_InvalidNeverLookedUp ==
    (output_csv.exists => Produced(output_csv))
        => /\ (pc \in {"query", "fetching", "record"}) => ~NormalizesToAbsent(cnpj_raw)
           /\ \A k \in DOMAIN resultados :
                 NormalizesToAbsent(resultados[k].cnpj_original)
                     => /\ resultados[k].api_success = Bool(FALSE)
                        /\ resultados[k].api_error = Str(<<"cnpj_invalido">>)

----------------------------------------------------------------------------
(* C4 *)

\* C4: for one row the driver calls the client at most 3 times; every call but
\* the last returned 429 and was followed by a wait of 60 seconds; the loop
\* ends at the first call that does not return 429, or at the third call;
\* the result recorded for the row is the last call's.
C4_Policy429 ==
    /\ Len(calls) <= 3
    /\ pc \in {"query", "fetching"} =>
          /\ Len(calls) = attempts_429
          /\ waits = Minutes(Len(calls))
          /\ \A k \in DOMAIN calls : calls[k].http_status = PyInt(429)
    /\ (pc \in {"record", "loop", "done"} /\ calls # <<>>) =>
          /\ \A k \in 1..(Len(calls) - 1) : calls[k].http_status = PyInt(429)
          /\ Len(calls) < 3 => LastCall.http_status # PyInt(429)
          /\ SubSeq(waits, 1, Len(calls) - 1) = Minutes(Len(calls) - 1)
          /\ Len(Waits429) = Len(calls) - 1
    /\ pc = "record" => envelope(api_result) = LastCall
    /\ (entry = "main" /\ pc \in {"loop", "done"} /\ calls # <<>>) =>
          LET rec == resultados[Len(resultados)]
          IN  /\ rec.index_origem = PyInt(idx)
              /\ rec.api_success = LastCall.success
              /\ rec.api_http_status = LastCall.http_status
              /\ rec.api_error = LastCall.error
    /\ (entry = "reprocess_failed" /\ pc = "loop" /\ calls # <<>>) =>
          /\ at(df, idx, "api_success") = LastCall.success
          /\ at(df, idx, "api_http_status") = LastCall.http_status
          /\ at(df, idx, "api_error") = LastCall.error

\* three 429 in a row, and the row has been recorded
C4_Witness ==
    /\ entry = "main"
    /\ pc = "loop"
    /\ Len(calls) = 3
    /\ LastCall.http_status = PyInt(429)
    /\ resultados[Len(resultados)].api_error = Str(<<"http_error_", "429">>)

----------------------------------------------------------------------------
(* C5 *)

\* two network errors, then a 200 whose body parses to a document
C5_Case ==
    /\ fpc = "returned"
    /\ Len(http_log) = 3
    /\ http_log[1].kind = "exception"
    /\ http_log[2].kind = "exception"
    /\ http_log[3].kind = "response"
    /\ http_log[3].status = 200
    /\ http_log[3].body.json
    /\ http_log[3].body.doc # None

\* C5: after two network errors and a 200 with a parseable body the client
\* returns success, having made 3 attempts and slept 1 s and then 2 s; the call
\* makes no further attempt and sleeps no more.
C5_TwoFailuresThenSuccess ==
    /\ [](C5_Case => /\ api_result.success = Bool(TRUE)
                     /\ api_result.http_status = PyInt(200)
                     /\ api_result.data = http_log[3].body.doc
                     /\ attempt = 2
                     /\ sleeps = <<1000, 2000>>)
    /\ [][C5_Case => \/ fpc' = "idle"
                     \/ /\ fpc' = "returned"
                        /\ http_log' = http_log
                        /\ sleeps' = sleeps]_vars

C5_Witness == C5_Case /\ api_result.success = Bool(TRUE)

----------------------------------------------------------------------------
(* C6 *)

ExpectedBackoff == <<1000, 2000, 4000, 8000, 16000>>

\* the call returned after attempts that all raised
C6_Case ==
    /\ fpc = "returned"
    /\ http_log # <<>>
    /\ http_log[Len(http_log)].kind = "exception"

\* C6: the client never makes more than max_retries (5) attempts; the sleep
\* after the k-th failed attempt is 2^(k-1) seconds; when every attempt failed
\* it returns, after exactly max_retries attempts, success false, no HTTP
\* status, no payload and the description of the last exception as error.
C6_Exhaustion ==
    /\ Len(http_log) <= 5
    /\ Len(sleeps) <= 5
    /\ \A k \in DOMAIN sleeps : sleeps[k] = ExpectedBackoff[k]
    /\ fpc = "try" => Len(sleeps) = Len(http_log)
    /\ C6_Case =>
          /\ Len(http_log) = 5
          /\ \A k \in DOMAIN http_log : http_log[k].kind = "exception"
          /\ Len(sleeps) = 5
          /\ api_result = [success |-> Bool(FALSE),
                           error |-> Str(<<"request_exception: ", last_raised>>),
                           http_status |-> None,
                           data |-> None]
    /\ (fpc = "returned" /\ api_result.http_status = None) => C6_Case

C6_Witness == C6_Case /\ last_raised = "dns" /\ api_result.http_status = None

----------------------------------------------------------------------------
(* C7 *)

\* the k-th attempt of the call met a response that is not a success
C7_Failure(k) ==
    /\ http_log[k].kind = "response"
    /\ \/ http_log[k].status # 200
       \/ ~http_log[k].body.json
       \/ http_log[k].body.doc = None

\* C7: a response that is not a success ends the call at once: it is the last
\* attempt of the call, no backoff sleep follows it, and the call returns
\* failure with the response's status and the payload parsed from it, if any.
C7_ResponseEndsCall ==
    \A k \in DOMAIN http_log :
        C7_Failure(k) =>
            /\ k = Len(http_log)
            /\ fpc = "returned"
            /\ Len(sleeps) = k - 1
            /\ api_result.success = Bool(FALSE)
            /\ api_result.http_status = PyInt(http_log[k].status)
            /\ api_result.error = Str(<<"http_error_", ToString(http_log[k].status)>>)
            /\ api_result.data = IF http_log[k].body.json THEN http_log[k].body.doc
                                 ELSE None

\* a 500 with a JSON object, after three network errors
C7_Witness ==
    /\ fpc = "returned"
    /\ Len(http_log) = 4
    /\ C7_Failure(4)
    /\ http_log[4].status = 500
    /\ api_result.data = FullPayload

----------------------------------------------------------------------------
(* C8 *)

\* the retry-only run ends by rewriting a table some run produced
C8_Rewrites ==
    /\ entry = "reprocess_failed"
    /\ pc = "loop"
    /\ pc' = "done"
    /\ Produced(output_csv)

----------------------------------------------------------------------------
(* C9 *)

Digits14(v) ==
    /\ v.t = "str"
    /\ Len(v.s) = 14
    /\ \A k \in 1..14 : v.s[k] \in {"0", "1", "2", "3", "4", "5", "6", "7", "8", "9"}

\* C9: normalize_cnpj returns absent or the 14 digits of the raw value in
\* their order (absent exactly when the raw value is absent or does not hold 14
\* digits); normalizing the result again gives the same result;
\* "12.345.678/0001-95" gives "12345678000195" and "123" gives absent.
C9_Normalize ==
    (arg # Unset /\ arg.fn = "normalize_cnpj" /\ ret # Unset) =>
        /\ ret = None \/ Digits14(ret)
        /\ arg.x \in {None, NaN} => ret = None
        /\ arg.x \notin {None, NaN} =>
              IF Len(DigitsOf(arg.x.s)) = 14
              THEN ret = Str(DigitsOf(arg.x.s))
              ELSE ret = None
        /\ ret2 # Unset => ret2 = ret
        /\ arg.x = Str(<<"1", "2", ".", "3", "4", "5", ".", "6", "7", "8", "/",
                         "0", "0", "0", "1", "-", "9", "5">>)
              => ret = Str(<<"1", "2", "3", "4", "5", "6", "7", "8",
                             "0", "0", "0", "1", "9", "5">>)
        /\ arg.x = Str(<<"1", "2", "3">>) => ret = None

\* a text with punctuation normalized to its 14 digits, and normalized again
C9_Witness ==
    /\ arg # Unset
    /\ arg.fn = "normalize_cnpj"
    /\ arg.x \notin {None, NaN}
    /\ Len(arg.x.s) > 14
    /\ ret # Unset
    /\ Digits14(ret)
    /\ ret2 = ret

----------------------------------------------------------------------------
(* C10 *)

\* the payload of a lookup result is a JSON object without the key
Lacks(x, key) == x.data.t = "dict" /\ key \notin DOMAIN x.data.m

\* C10: extract_fields raises for no lookup result; its output carries the
\* envelope's success flag, HTTP status and error; an absent payload gives
\* absent payload fields; a payload without an address (or without a main
\* activity) gives absent fields for that section and still the company's and
\* the status fields.
C10_NeverRaises ==
    (arg # Unset /\ arg.fn = "extract_fields" /\ ret # Unset) =>
        /\ ~is_raise(ret)
        /\ ret.api_success = arg.x.success
        /\ ret.api_http_status = arg.x.http_status
        /\ ret.api_error = arg.x.error
        /\ arg.x.data = None => \A c \in PayloadCols : ret[c] = None
        /\ \A key \in {"address", "mainActivity"} :
              Lacks(arg.x, key) =>
                 /\ \A c \in (IF key = "address" THEN AddressCols ELSE ActivityCols) :
                       ret[c] = None
                 /\ "status" \in DOMAIN arg.x.data.m
                       => ret.situacao_cadastral = arg.x.data.m["status"]
                 /\ ("company" \in DOMAIN arg.x.data.m
                     /\ arg.x.data.m["company"] = CompanyWith(FullSize))
                       => /\ ret.razao_social = Str(<<"company.name">>)
                          /\ ret.porte_id = Str(<<"size.id">>)

----------------------------------------------------------------------------
(* C11 *)

\* the file the entry point reads: INPUT_CSV in main, OUTPUT_CSV in reprocess_failed
FileRead == IF entry = "main" THEN input_csv ELSE output_csv

\* C11: in both entry points, a run whose file is missing, or whose table has
\* no column CNPJ_COLUMN_NAME, has ended in an exception without visiting a
\* row, calling the lookup client or writing the output file.
C11_FailFast ==
    (entry \in {"main", "reprocess_failed"}
     /\ (~FileRead.exists \/ "cnpj_normalizadoapi" \notin Range(df.columns)))
        => /\ pc = "raised"
           /\ raised \in {"FileNotFoundError", "ValueError"}
           /\ queried = {}
           /\ calls = <<>>
           /\ resultados = <<>>
           /\ writes = 0

----------------------------------------------------------------------------
(* C12 *)

\* C12: in both entry points a row that has been looked up and recorded is
\* followed by the pause of 0.5 seconds: the driver's sleeps for the row end
\* with it, after the 60-second waits of the 429 loop.
C12_SameSequence ==
    (entry \in {"main", "reprocess_failed"} /\ pc = "loop" /\ calls # <<>>)
        => /\ Len(waits) = Len(calls)
           /\ waits[Len(waits)] = 500
           /\ SubSeq(waits, 1, Len(waits) - 1) = Minutes(Len(calls) - 1)

----------------------------------------------------------------------------
(* C13 *)

\* the limiter has been called and has returned
C13_Returned == arg # Unset /\ arg.fn = "sleep_if_necessary" /\ ret # Unset

\* C13: with the counter at the cap (60) or above, sleep_if_necessary sleeps
\* for what is left of the 60 seconds since the window started, not at all
\* when they have passed, and returns the counter 0 and the time of its return
\* as window start; below the cap it does not sleep and returns the counter
\* and the window start it was given, however old the window.
C13_Limiter ==
    C13_Returned =>
        LET x == arg.x
            elapsed == x.now - x.start_window
        IN  IF x.request_count >= 60
            THEN /\ ret.slept = (IF elapsed >= 60000 THEN 0 ELSE 60000 - elapsed)
                 /\ ret.request_count = 0
                 /\ ret.start_window = ret.now
                 /\ ret.now >= x.now + ret.slept
            ELSE /\ ret.slept = 0
                 /\ ret.request_count = x.request_count
                 /\ ret.start_window = x.start_window
                 /\ ret.now = x.now

\* at the cap, half a minute into the window: half a minute of sleep
C13_Witness ==
    /\ C13_Returned
    /\ arg.x.request_count = 60
    /\ arg.x.now - arg.x.start_window = 30000
    /\ ret.slept = 30000
    /\ ret.request_count = 0

----------------------------------------------------------------------------
(* C14 *)

\* C14: no more than MAX_REQUESTS_PER_MINUTE (60) HTTP requests leave within
\* any 60 seconds: counting back from any request, fewer than 60 seconds, at
\* most 60 requests.
C14_SlidingWindow == Len(stamps) <= 60

----------------------------------------------------------------------------
(* C15 *)

\* C15: in both entry points, when a looked-up row is recorded the rate
\* limiter's counter goes up by the number of HTTP requests sent for the row,
\* the repeats of the 429 loop and the attempts of the backoff loop included.
C15_CounterCountsRequests ==
    [][(entry \in {"main", "reprocess_failed"} /\ pc = "record" /\ pc' = "loop")
          => request_count' = request_count + requests]_vars

----------------------------------------------------------------------------
(* C16 *)

\* the call ran out of attempts: none of them met a response
C16_Exhausted == \A k \in DOMAIN http_log : http_log[k].kind = "exception"

\* C16: whatever fetch_cnpj_data returns has the four fields success, error,
\* http_status and data and no other; success is true exactly when the status
\* is 200 and the payload is present; error is absent exactly when success is
\* true; the status is absent exactly when the retries were exhausted.
C16_Envelope ==
    (api_result # None) =>
        /\ DOMAIN api_result = {"success", "error", "http_status", "data"}
        /\ api_result.success \in {Bool(TRUE), Bool(FALSE)}
        /\ (api_result.success = Bool(TRUE))
              <=> (api_result.http_status = PyInt(200) /\ api_result.data # None)
        /\ (api_result.error = None) <=> (api_result.success = Bool(TRUE))
        /\ api_result.error # None => api_result.error.t = "str"
        /\ api_result.http_status # None => api_result.http_status.t = "int"
        /\ fpc = "returned" => ((api_result.http_status = None) <=> C16_Exhausted)

\* a 200 whose body is JSON null: returned as a failure with status 200
C16_Witness ==
    /\ fpc = "returned"
    /\ http_log[Len(http_log)] = [kind |-> "response", status |-> 200, body |-> JsonBody(None)]
    /\ api_result.success = Bool(FALSE)
    /\ api_result.http_status = PyInt(200)
    /\ api_result.data = None

----------------------------------------------------------------------------
(* C17 *)

\* the rows the run selects: from START_INDEX on, or those to retry
C17_Selected ==
    IF entry = "main" THEN iloc_from(Len(df.rows), START_INDEX)
    ELSE retry_index(read_csv(output_csv))

\* C17: a run writes the output file at most once, and the file changes only
\* in the step that ends the run, when no selected row is left and no lookup
\* is under way; in main every selected row then has its record.  Until
\* that step the file is as it was when the run began.
C17_WriteOnceAtEnd ==
    /\ [](writes <= 1)
    /\ [](pc \in {"loop", "query", "fetching", "record", "raised"} => writes = 0)
    /\ [][(output_csv' # output_csv \/ writes' > writes)
             => /\ pc = "loop"
                /\ pc' = "done"
                /\ todo = <<>>
                /\ fpc = "idle"
                /\ writes = 0
                /\ writes' = 1
                /\ entry = "main" => Len(resultados) = Len(C17_Selected)
                /\ entry = "reprocess_failed" =>
                      queried \subseteq Range(C17_Selected)]_vars

\* a full run over two rows has written the file
C17_Witness ==
    /\ entry = "main"
    /\ pc = "done"
    /\ writes = 1
    /\ Len(resultados) = 2
    /\ output_csv.exists
    /\ Len(output_csv.rows) = 2

----------------------------------------------------------------------------
(* C18 *)

\* the call has returned after max_retries network errors
C18_ExhaustedReturn ==
    /\ pc = "fetching"
    /\ fpc = "returned"
    /\ api_result.http_status = None

\* C18: for one row the driver calls the lookup client at most 3 times, each
\* call sends at most max_retries (5) HTTP requests, so the row costs at most
\* 15; a result of exhausted retries ends the row's 429 loop: the next step
\* goes on to record it, with no wait of 60 seconds and no further call.
C18_Layered ==
    /\ [](/\ Len(calls) <= 3
          /\ requests <= 15
          /\ requests <= 5 * Len(calls) + Len(http_log)
          /\ Len(http_log) <= 5
          /\ pc \in {"query", "fetching"} => Len(calls) <= 2)
    /\ [][C18_ExhaustedReturn
             => /\ pc' = "record"
                /\ waits' = waits
                /\ requests' = requests
                /\ calls' = Append(calls, envelope(api_result))
                /\ api_result' = api_result]_vars
    /\ [][(pc = "record" /\ calls # <<>> /\ calls[Len(calls)].http_status = None)
             => (pc' \in {"loop", "raised"} /\ requests' = requests /\ waits' # Append(waits, 60000))]_vars

\* two 429 after four network errors each, then a call that exhausts its
\* retries: 15 requests, 3 calls, and the row is recorded
C18_Witness ==
    /\ pc = "loop"
    /\ Len(calls) = 3
    /\ requests = 15
    /\ calls[1].http_status = PyInt(429)
    /\ calls[2].http_status = PyInt(429)
    /\ calls[3].http_status = None
    /\ Len(Waits429) = 2

----------------------------------------------------------------------------
(* C19 *)

\* the positions (from 0) at or after START_INDEX in the table read, ascending
C19_Positions ==
    LET n == Len(df.rows)
        from == IF START_INDEX > n THEN n ELSE START_INDEX
    IN  [i \in 1..(n - from) |-> from + i - 1]

\* the rows visited so far are the first of those positions, in order, with
\* one record each, keyed by the position; only they are looked up
C19_Processed ==
    (entry = "main" /\ ChecksPassed /\ pc \in {"loop", "done"})
        => /\ Len(resultados) <= Len(C19_Positions)
           /\ \A k \in DOMAIN resultados :
                 resultados[k].index_origem = PyInt(C19_Positions[k])
           /\ queried \subseteq {C19_Positions[k] : k \in DOMAIN resultados}
           /\ pc = "done" => Len(resultados) = Len(C19_Positions)

\* the rows before START_INDEX are in the output, with every column the join
\* added (the records' fields) empty
C19_Output ==
    (entry = "main" /\ ChecksPassed /\ RunOver)
        => /\ Produced(output_csv)
           /\ \A r \in DOMAIN input_csv.rows :
                 r <= START_INDEX =>
                    /\ r \in DOMAIN output_csv.rows
                    /\ Cell(output_csv, r, "id_crm") = Cell(input_csv, r, "id_crm")
                    /\ \A c \in DOMAIN output_csv.header :
                          output_csv.header[c] \notin Range(df.columns)
                             => output_csv.rows[r][c] = <<>>

\* C19: a full run processes exactly the rows at positions >= START_INDEX,
\* once each and in ascending order, with one record per row keyed by its
\* position; the rows before START_INDEX are never looked up and are in the
\* output with every enrichment field absent.
C19_StartIndex ==
    /\ C19_Processed
    /\ C19_Output

====
